---- MODULE Spec2Model ----
(***************************************************************************)
(* Model of the websocket API handler of pipsqueak3                         *)
(* (Modules/api/websocket.py, Modules/api/v20.py) and of the rescue board   *)
(* (Modules/Rat_Board.py).                                                  *)
(*                                                                          *)
(* The handler runs on one asyncio event loop: the code between two awaits  *)
(* that suspend is one atomic step, and every action below is such a step.  *)
(***************************************************************************)
EXTENDS Integers, FiniteSets, Sequences, TLC

(***************************************************************************)
(* Bounds of the model.                                                     *)
(***************************************************************************)
\* number of tasks that call _request concurrently
NCallers == 2
\* number of distinct values uuid4() can return
NIds == 2
\* max_wait of _retrieve_response (600 in the code), scaled down
MaxWait == 1
\* number of channels one handler opens over its life
MaxConn == 2
\* largest board index
MaxIndex == 2

Callers == 1..NCallers

IdNames == <<"a", "b", "c", "d", "e", "f">>
Ids == {IdNames[i] : i \in 1..NIds}

\* meta.request_id of a document: absent, a string that is not a UUID, a JSON
\* value that is not a string (UUID() raises AttributeError on it), or a UUID
NoId == "none"
BadId == "not-a-uuid"
NumId == "not-a-string"

\* "code" of a document
NoCode == "none"
Codes == {"unauthorized", "forbidden", "internal_server", "teapot"}

\* meta.event of a document
NoEvent == "none"
KnownEvents == {"rescueUpdated", "rescueCreated", "rescueDeleted"}
Events == KnownEvents \cup {"bogus"}

\* Version enum values, and a token the enum does not have
Versions == {"v2.0", "v2.1"}
Tokens == Versions \cup {"v3.0"}

(***************************************************************************)
(* Documents the server may put on the wire: one that json.loads rejects    *)
(* (json FALSE), documents without an event, pushes (no request id) with    *)
(* any event, and a rescueCreated event that also carries a request id.     *)
(***************************************************************************)
Docs ==
    {[json |-> FALSE, rid |-> NoId, code |-> NoCode, event |-> NoEvent]}
    \cup {[json |-> TRUE, rid |-> r, code |-> c, event |-> NoEvent] :
                r \in Ids \cup {NoId, BadId, NumId}, c \in Codes \cup {NoCode}}
    \cup {[json |-> TRUE, rid |-> NoId, code |-> c, event |-> e] :
                c \in Codes \cup {NoCode}, e \in Events}
    \cup {[json |-> TRUE, rid |-> r, code |-> NoCode, event |-> "rescueCreated"] :
                r \in Ids \cup {BadId}}

\* first message of a channel: unparseable, without API-Version, or with a token
NoVersion == "none"
Garbage == "garbage"
Handshakes == Tokens \cup {NoVersion, Garbage}

(***************************************************************************)
(* Rescues, as far as the board looks at them.                              *)
(***************************************************************************)
NoIndex == 0 - 1
CaseIds == {"r1", "r2"}
NoCase == "none"
Clients == {"c1", "c2"}
Stamps == {"t1", "t2"}
Rescues ==
    [case_id : CaseIds \cup {NoCase}, client : Clients, created_at : Stamps,
     board_index : {NoIndex} \cup 0..MaxIndex]
NoRescue ==
    [case_id |-> NoCase, client |-> "none", created_at |-> "none", board_index |-> NoIndex]

(***************************************************************************)
(* The handler of src/Modules/api_handler.py, as far as reconnect() goes:   *)
(* its connection parameters and the arguments reconnect() may be given.    *)
(* NoArg stands for None, the default of an omitted argument.               *)
(***************************************************************************)
NoArg == "None"
Hosts == {"h1", "h2"}
AuthTokens == {"t1", "t2"}
Flags == {"True", "False"}

VARIABLES
    api_version,    \* class attribute api_version of the handler
    gen,            \* number of channels opened so far; the current one is gen
    connOpen,       \* self._connection is not None and self._connection.open
    handshaking,    \* connect() is awaiting the connect message
    listeners,      \* channels whose _message_handler task is alive
    ctl,            \* outcome of the last connect() / disconnect() call
    waiting,        \* self._waiting_requests
    responses,      \* self._request_responses
    pc,             \* per caller: position in _request
    rid,            \* per caller: request_id
    polls,          \* per caller: sleeps done in _retrieve_response
    outcome,        \* per caller: how _request ended
    result,         \* per caller: the document _request returned
    log,            \* what _message_handler did with the last message
    board,          \* RatBoard._rescues
    bres,           \* outcome of the last call of a RatBoard method
    legacy,         \* the handler of src/Modules/api_handler.py
    search,         \* a Search: its _criteria and the last call of generate
    conv,           \* the last conversion of an entity by a Converter
    commands,       \* rat_command._registered_commands
    cres,           \* outcome of the last registration of a command
    pres,           \* the last call of a command wrapped by parametrize
    vres,           \* the last call of a command wrapped by require_api_version
    inc             \* self._rat_cache and the last response decoded into a Rescue

vars == <<api_version, gen, connOpen, handshaking, listeners, ctl, waiting,
          responses, pc, rid, polls, outcome, result, log, board, bres, legacy,
          search, conv, commands, cres, pres, vres, inc>>

connVars == <<api_version, gen, connOpen, handshaking, listeners, ctl>>
callVars == <<pc, rid, polls, outcome, result>>
boardVars == <<board, bres>>
handlerVars == <<connVars, waiting, responses, callVars, log>>
cmdVars == <<commands, cres, pres, vres>>
calcVars == <<search, conv, cmdVars, inc>>

NoDoc == [json |-> FALSE, rid |-> NoId, code |-> NoCode, event |-> NoEvent]
NoLog == [kind |-> "none", rid |-> NoId]

\* replaced: the call put a rescue where another one was stored
NoRes == [op |-> "none", err |-> "none", replaced |-> FALSE]

\* api_handler.py, __init__: hostname given, token and tls at their defaults
NoLegacy ==
    [hostname |-> "h1", token |-> NoArg, tls |-> "True", open |-> FALSE,
     listener |-> FALSE, op |-> "none", err |-> "none"]

(***************************************************************************)
(* Python values as far as Search and Converter look at them: the name of   *)
(* the type and the value. Dicts are functions from keys to values.         *)
(***************************************************************************)
None == [type |-> "NoneType", name |-> "None"]
OPEN == [type |-> "Status", name |-> "OPEN"]
CLOSED == [type |-> "Status", name |-> "CLOSED"]
SomeStr == [type |-> "str", name |-> "x"]
PyValues == {OPEN, SomeStr, None}
EmptyDict == << >>

\* raised by Search.generate: the class and what check_type's message names
NoErr == [class |-> "none", expected |-> {}, actual |-> "none"]
Raised(class) == [class |-> class, expected |-> {}, actual |-> "none"]

\* Search(): no criterion, generate not called yet
NoSearch ==
    [criteria |-> EmptyDict, op |-> "none", arg |-> << >>, out |-> EmptyDict,
     err |-> NoErr]

\* no command registered yet
NoReg == [func |-> "none", aliases |-> << >>, err |-> "none"]

\* no wrapped command called yet
NoCall ==
    [op |-> "none", params |-> << >>, words |-> << >>, called |-> FALSE,
     args |-> << >>, usage |-> FALSE, err |-> "none"]

\* no command wrapped by require_api_version called yet
NoVersionCall ==
    [op |-> "none", version |-> "none", exact |-> FALSE, actual_version |-> "none",
     executed |-> FALSE, warned |-> FALSE]

\* the caches of WebsocketAPIHandler20.__init__, no response received yet
NoIncluded ==
    [cache |-> {}, op |-> "none", included |-> {}, rats |-> {}, before |-> {},
     requests |-> 0]

\* no conversion made yet
NoConv ==
    [op |-> "none", converter |-> << >>, entity |-> << >>, json |-> << >>,
     obj |-> << >>, err |-> "none"]

NoCtl ==
    [op |-> "none", err |-> "none", msg |-> "none",
     handler_ver |-> NoVersion, api_ver |-> NoVersion]

(***************************************************************************)
(* BaseWebsocketAPIHandler.__init__: without a connection the handler is    *)
(* disconnected and has no listener task; with one it is connected at once  *)
(* and the listener task is created.                                        *)
(***************************************************************************)
Init ==
    /\ api_version \in Versions
    /\ \E given \in BOOLEAN :
        /\ gen = (IF given THEN 1 ELSE 0)
        /\ connOpen = given
        /\ listeners = (IF given THEN {1} ELSE {})
    /\ handshaking = FALSE
    /\ ctl = NoCtl
    /\ waiting = {}
    /\ responses = << >>
    /\ pc = [c \in Callers |-> "idle"]
    /\ rid = [c \in Callers |-> NoId]
    /\ polls = [c \in Callers |-> 0]
    /\ outcome = [c \in Callers |-> "none"]
    /\ result = [c \in Callers |-> NoDoc]
    /\ log = NoLog
    /\ board = << >>
    /\ bres = NoRes
    /\ legacy = NoLegacy
    /\ search = NoSearch
    /\ conv = NoConv
    /\ commands = EmptyDict
    /\ cres = NoReg
    /\ pres = NoCall
    /\ vres = NoVersionCall
    /\ inc = NoIncluded

\* connected without the test of .open
connectedNotNone == gen > 0

\* property connected
connected == gen > 0 /\ connOpen

(***************************************************************************)
(* parse_connect_event on the connect message: the Version of the token,    *)
(* None (with a warning) when the field is absent. Version(token) raises    *)
(* ValueError for a token the enum does not have.                           *)
(***************************************************************************)
parse_connect_event(hs) ==
    IF hs = NoVersion THEN [err |-> "none", version |-> NoVersion, warned |-> TRUE]
    ELSE IF hs \in Versions THEN [err |-> "none", version |-> hs, warned |-> FALSE]
    ELSE [err |-> "ValueError", version |-> NoVersion, warned |-> FALSE]

\* the comparison of connect(): version != self.api_version (None differs from every Version)
VersionDiffers(version, own) == version # own

(***************************************************************************)
(* connect(), up to the await of the connect message.                        *)
(***************************************************************************)
Connect ==
    /\ ~handshaking
    /\ IF connected
       THEN /\ ctl' = [NoCtl EXCEPT !.op = "connect", !.err = "NotConnectedError",
                                   !.msg = "Already connected to a server"]
            /\ UNCHANGED <<gen, connOpen, handshaking>>
       ELSE /\ gen < MaxConn
            /\ gen' = gen + 1
            /\ connOpen' = TRUE
            /\ handshaking' = TRUE
            /\ ctl' = [NoCtl EXCEPT !.op = "connect", !.err = "pending"]
    /\ UNCHANGED <<api_version, listeners, waiting, responses, callVars, log, boardVars, legacy, calcVars>>

(***************************************************************************)
(* connect(), from the connect message on. hs is the first message of the   *)
(* channel.                                                                  *)
(***************************************************************************)
ConnectOutcome(hs, own) ==
    IF hs = Garbage
    THEN [err |-> "APIError", close |-> FALSE, listen |-> FALSE, api_ver |-> NoVersion]
    ELSE LET p == parse_connect_event(hs) IN
         IF p.err # "none"
         THEN [err |-> p.err, close |-> FALSE, listen |-> FALSE, api_ver |-> NoVersion]
         ELSE IF VersionDiffers(p.version, own)
         THEN IF p.version = NoVersion
              \* version.value on None, after the close
              THEN [err |-> "AttributeError", close |-> TRUE, listen |-> FALSE,
                    api_ver |-> NoVersion]
              ELSE [err |-> "MismatchedVersionError", close |-> TRUE, listen |-> FALSE,
                    api_ver |-> p.version]
         ELSE [err |-> "none", close |-> FALSE, listen |-> TRUE, api_ver |-> p.version]

Handshake(hs) ==
    /\ handshaking
    /\ LET o == ConnectOutcome(hs, api_version) IN
        /\ handshaking' = FALSE
        /\ connOpen' = (connOpen /\ ~o.close)
        /\ listeners' = (IF o.listen THEN listeners \cup {gen} ELSE listeners)
        /\ ctl' = [op |-> "connect", err |-> o.err, msg |-> "none",
                   handler_ver |-> (IF o.err = "MismatchedVersionError"
                                    THEN api_version ELSE NoVersion),
                   api_ver |-> (IF o.err = "MismatchedVersionError"
                                THEN o.api_ver ELSE NoVersion)]
    /\ UNCHANGED <<api_version, gen, waiting, responses, callVars, log, boardVars, legacy, calcVars>>

(***************************************************************************)
(* disconnect()                                                              *)
(***************************************************************************)
Disconnect ==
    /\ ~handshaking
    /\ IF ~connected
       THEN /\ ctl' = [NoCtl EXCEPT !.op = "disconnect", !.err = "NotConnectedError",
                                   !.msg = "Not connected to API"]
            /\ UNCHANGED connOpen
       ELSE /\ connOpen' = FALSE
            /\ ctl' = [NoCtl EXCEPT !.op = "disconnect"]
    /\ UNCHANGED <<api_version, gen, handshaking, listeners, waiting, responses,
                   callVars, log, boardVars, legacy, calcVars>>

(***************************************************************************)
(* _message_handler: recv() raises ConnectionClosed on a closed channel and *)
(* the task returns.                                                         *)
(***************************************************************************)
ListenerExit(g) ==
    /\ g \in listeners
    /\ ~(g = gen /\ connOpen)
    /\ listeners' = listeners \ {g}
    /\ UNCHANGED <<api_version, gen, connOpen, handshaking, ctl, waiting, responses,
                   callVars, log, boardVars, legacy, calcVars>>

\* the uuid4() loop without the test against the unretrieved responses
FreshIdsWaitingOnly(w, r) == Ids \ w

(***************************************************************************)
(* _request: the uuid4() loop. Every value uuid4() can return that is       *)
(* neither awaiting a response nor keying an unretrieved one.               *)
(***************************************************************************)
FreshIds(w, r) == Ids \ (w \cup DOMAIN r)

(***************************************************************************)
(* _request up to the await of the send: draw the id, register it, and      *)
(* _send_raw (NotConnectedError when not connected).                         *)
(***************************************************************************)
Request(c) ==
    /\ pc[c] \in {"idle", "done"}
    /\ \E id \in FreshIds(waiting, responses) :
        /\ rid' = [rid EXCEPT ![c] = id]
        /\ waiting' = waiting \cup {id}
    /\ polls' = [polls EXCEPT ![c] = 0]
    /\ result' = [result EXCEPT ![c] = NoDoc]
    /\ IF connected
       THEN /\ pc' = [pc EXCEPT ![c] = "polling"]
            /\ outcome' = [outcome EXCEPT ![c] = "none"]
       ELSE /\ pc' = [pc EXCEPT ![c] = "done"]
            /\ outcome' = [outcome EXCEPT ![c] = "NotConnectedError"]
    /\ UNCHANGED <<connVars, responses, log, boardVars, legacy, calcVars>>

(***************************************************************************)
(* _retrieve_response, after the loop: what the popped response makes of    *)
(* the call. An unknown code is logged and None is returned, on which       *)
(* _request's result.setdefault raises AttributeError.                      *)
(***************************************************************************)
RaiseFor(code) ==
    CASE code = NoCode -> "returned"
      [] code = "unauthorized" -> "UnauthorizedError"
      [] code = "forbidden" -> "ForbiddenError"
      [] code = "internal_server" -> "InternalAPIError"
      [] OTHER -> "AttributeError"

\* the response read without being removed
PopKeep(r, id) == r

\* self._request_responses.pop(request_id)
Pop(r, id) == [k \in DOMAIN r \ {id} |-> r[k]]

\* every waiter unregistered with the one asked for
UnregisterAll(w, id) == {}

\* the waiter left registered
UnregisterNot(w, id) == w

\* self._waiting_requests.remove(request_id), on an id that is in the set
Unregister(w, id) == w \ {id}

\* the for loop of _retrieve_response has run max_wait times
Exhausted(n) == n >= MaxWait

(***************************************************************************)
(* _retrieve_response from one wake-up to the next sleep or to its end.     *)
(***************************************************************************)
Retrieve(c) ==
    /\ pc[c] = "polling"
    /\ LET id == rid[c] IN
       IF polls[c] = 0 /\ id \notin waiting /\ id \notin DOMAIN responses
       THEN \* already consumed or never queued
            /\ pc' = [pc EXCEPT ![c] = "done"]
            /\ outcome' = [outcome EXCEPT ![c] = "APIError"]
            /\ UNCHANGED <<waiting, responses, polls, result>>
       ELSE IF Exhausted(polls[c])
       THEN \* else clause of the for loop: set.remove raises KeyError on a missing id
            /\ pc' = [pc EXCEPT ![c] = "done"]
            /\ outcome' = [outcome EXCEPT ![c] =
                              IF id \in waiting THEN "TimeoutError" ELSE "KeyError"]
            /\ waiting' = (IF id \in waiting THEN Unregister(waiting, id) ELSE waiting)
            /\ UNCHANGED <<responses, polls, result>>
       ELSE IF id \in waiting
       THEN \* asyncio.sleep(0.01)
            /\ polls' = [polls EXCEPT ![c] = polls[c] + 1]
            /\ UNCHANGED <<pc, waiting, responses, outcome, result>>
       ELSE IF id \in DOMAIN responses
       THEN /\ pc' = [pc EXCEPT ![c] = "done"]
            /\ responses' = Pop(responses, id)
            /\ outcome' = [outcome EXCEPT ![c] = RaiseFor(responses[id].code)]
            /\ result' = [result EXCEPT ![c] =
                             IF responses[id].code = NoCode THEN responses[id] ELSE NoDoc]
            /\ UNCHANGED <<waiting, polls>>
       ELSE \* response not available
            /\ pc' = [pc EXCEPT ![c] = "done"]
            /\ outcome' = [outcome EXCEPT ![c] = "APIError"]
            /\ UNCHANGED <<waiting, responses, polls, result>>
    /\ UNCHANGED <<rid, connVars, log, boardVars, legacy, calcVars>>

(***************************************************************************)
(* WebsocketAPIHandler20._handle_update: _event_handlers[event] is a plain  *)
(* function taken from a dict, so it is called without self: an unknown     *)
(* event raises KeyError, a known one TypeError (missing argument           *)
(* 'rescues'), before the payload is decoded or the board is touched.       *)
(***************************************************************************)
_handle_update(event) ==
    IF event \in KnownEvents THEN "TypeError" ELSE "KeyError"

(***************************************************************************)
(* _message_handler: which branch one received message takes.               *)
(***************************************************************************)
Dispatch(d, w) ==
    IF ~d.json THEN "unparseable"
    ELSE IF d.rid = NoId
    THEN IF d.code # NoCode THEN "code"
         ELSE IF d.event # NoEvent THEN "event"
         ELSE "unrecognized"
    ELSE IF d.rid = BadId THEN "baduuid"
    ELSE IF d.rid = NumId THEN "AttributeError"
    ELSE IF d.rid \notin w THEN "unexpected"
    ELSE "resolved"

\* the response filed under another request's id
StoreElsewhere(r, id, d) == ((CHOOSE k \in Ids : k # id) :> d) @@ r

\* self._request_responses[request_id] = data
Store(r, id, d) == (id :> d) @@ r

(***************************************************************************)
(* _message_handler: one message received and handled. An exception of      *)
(* _handle_update, or one of UUID() other than ValueError, is caught         *)
(* nowhere and ends the task.                                               *)
(***************************************************************************)
Receive(d) ==
    /\ gen \in listeners
    /\ connOpen
    /\ LET k == Dispatch(d, waiting) IN
        /\ IF k = "resolved"
           THEN /\ responses' = Store(responses, d.rid, d)
                /\ waiting' = Unregister(waiting, d.rid)
           ELSE UNCHANGED <<waiting, responses>>
        /\ IF k = "event"
           THEN /\ listeners' = listeners \ {gen}
                /\ log' = [kind |-> _handle_update(d.event), rid |-> d.rid]
           ELSE IF k = "AttributeError"
           THEN /\ listeners' = listeners \ {gen}
                /\ log' = [kind |-> k, rid |-> d.rid]
           ELSE /\ UNCHANGED listeners
                /\ log' = [kind |-> k, rid |-> d.rid]
    /\ UNCHANGED <<api_version, gen, connOpen, handshaking, ctl, callVars, boardVars, legacy, calcVars>>

(***************************************************************************)
(* RatBoard, called locally.                                                 *)
(***************************************************************************)
\* `if rescue.board_index:` is false for None and for 0
IndexGiven(i) == i # NoIndex /\ i # 0

\* an occupied index taken for free
IndexFreeAlways(b, i) == TRUE

\* rescue.board_index not in self._rescues
IndexFree(b, i) == i \notin DOMAIN b

\* the rescue stored only where nothing is stored yet
PutIfAbsent(b, r) == b @@ (r.board_index :> r)

\* self._rescues[rescue.board_index] = rescue
Put(b, r) == (r.board_index :> r) @@ b

\* RatBoard.__contains__: same case_id, or same client and created_at
__contains__(b, other) ==
    \E i \in DOMAIN b :
        \/ b[i].case_id = other.case_id
        \/ b[i].client = other.client /\ b[i].created_at = other.created_at

\* RatBoard.find_by_index: the rescue at the index, None (NoRescue) without one
find_by_index(b, i) == IF i \in DOMAIN b THEN b[i] ELSE NoRescue

\* RatBoard.append: the board it leaves and the error it raises
append(b, r, overwrite) ==
    IF IndexGiven(r.board_index)
    THEN IF overwrite \/ IndexFree(b, r.board_index)
         THEN [board |-> Put(b, r), err |-> "none"]
         ELSE [board |-> b, err |-> "IndexNotFreeError"]
    ELSE [board |-> b, err |-> "none"]

\* a call of RatBoard.append
BoardAppend(r, overwrite) ==
    /\ LET a == append(board, r, overwrite) IN
        /\ board' = a.board
        /\ bres' = [op |-> "append", err |-> a.err,
                    replaced |-> (r.board_index \in DOMAIN board /\ a.board # board)]
    /\ UNCHANGED <<handlerVars, legacy, calcVars>>

\* RatBoard.modify: the body is `return False`; the board it leaves, the
\* error it raises and the value it returns
modify(b, r) == [board |-> b, err |-> "none", ret |-> FALSE]

\* a call of RatBoard.modify
BoardModify(r) ==
    /\ LET a == modify(board, r) IN
        /\ board' = a.board
        /\ bres' = [op |-> "modify", err |-> a.err, replaced |-> a.ret]
    /\ UNCHANGED <<handlerVars, legacy, calcVars>>

\* a remove that deletes nothing
removeNothing(b, r) == [board |-> b, err |-> "none"]

PopIndexAll(b, i) == << >>

\* dict.pop(key) on a key the dict holds
PopIndex(b, i) == [j \in DOMAIN b \ {i} |-> b[j]]

\* RatBoard.remove: self._rescues.pop(rescue.board_index); the board it
\* leaves and the error it raises
remove(b, r) ==
    IF r.board_index \in DOMAIN b
    THEN [board |-> PopIndex(b, r.board_index), err |-> "none"]
    ELSE [board |-> b, err |-> "KeyError"]

\* a call of RatBoard.remove
BoardRemove(r) ==
    /\ LET a == remove(board, r) IN
        /\ board' = a.board
        /\ bres' = [op |-> "remove", err |-> a.err, replaced |-> FALSE]
    /\ UNCHANGED <<handlerVars, legacy, calcVars>>

\* RatBoard.clear_board
ClearBoard ==
    /\ board' = << >>
    /\ bres' = [op |-> "clear", err |-> "none", replaced |-> FALSE]
    /\ UNCHANGED <<handlerVars, legacy, calcVars>>

(***************************************************************************)
(* WebsocketAPIHandler20._rescue_updated, _rescue_created, _rescue_deleted: *)
(* the body of each function for one rescue of its argument, `open` being   *)
(* rescue.open. The body runs when the function is called with the handler  *)
(* and the rescues; _handle_update does not call it so (see above).         *)
(***************************************************************************)
Untouched(b) == [board |-> b, err |-> "none"]

_rescue_updated(b, r, open) ==
    IF open
    THEN IF __contains__(b, r)
         THEN [board |-> modify(b, r).board, err |-> modify(b, r).err]
         ELSE append(b, r, FALSE)
    ELSE IF __contains__(b, r) THEN remove(b, r) ELSE Untouched(b)

_rescue_created(b, r, open) ==
    IF open /\ ~__contains__(b, r) THEN append(b, r, FALSE) ELSE Untouched(b)

_rescue_deleted(b, r) ==
    IF __contains__(b, r) THEN remove(b, r) ELSE Untouched(b)

(***************************************************************************)
(* src/Modules/api_handler.py: connect, disconnect and reconnect of the     *)
(* handler for v2.0. Each call is taken with the connect message it meets.  *)
(***************************************************************************)
LegacyVersion == "v2.0"

\* `if hostname:`, `if token:`, `if tls:`
Truthy(x) == x # NoArg /\ x # "False"

\* connect(): the try block around the connect message
legacy_handshake(hs) ==
    IF hs = Garbage THEN [err |-> "APIError", listen |-> FALSE]
    ELSE IF hs = NoVersion THEN [err |-> "none", listen |-> TRUE]
    ELSE IF hs # LegacyVersion THEN [err |-> "APIError", listen |-> FALSE]
    ELSE [err |-> "none", listen |-> TRUE]

\* connect()
legacy_connect(l, hs) ==
    IF l.open
    THEN [l EXCEPT !.err = "APIError"]
    ELSE LET o == legacy_handshake(hs) IN
         [l EXCEPT !.open = TRUE, !.listener = (l.listener \/ o.listen), !.err = o.err]

\* disconnect(); self._listener_task.cancel() on None raises AttributeError
legacy_disconnect(l) ==
    IF ~l.open THEN [l EXCEPT !.err = "APIError"]
    ELSE IF ~l.listener THEN [l EXCEPT !.err = "AttributeError"]
    ELSE [l EXCEPT !.open = FALSE, !.listener = FALSE, !.err = "none"]

\* reconnect(hostname, token, tls)
legacy_reconnect(l, h, t, s, hs) ==
    LET d == IF l.open THEN legacy_disconnect(l) ELSE l IN
    IF l.open /\ d.err # "none"
    THEN d
    ELSE legacy_connect([d EXCEPT !.hostname = (IF Truthy(h) THEN h ELSE @),
                                  !.token = (IF Truthy(t) THEN t ELSE @),
                                  !.tls = (IF Truthy(s) THEN s ELSE @)], hs)

LegacyConnect(hs) ==
    /\ legacy' = [legacy_connect(legacy, hs) EXCEPT !.op = "connect"]
    /\ UNCHANGED <<handlerVars, boardVars, calcVars>>

LegacyDisconnect ==
    /\ legacy' = [legacy_disconnect(legacy) EXCEPT !.op = "disconnect"]
    /\ UNCHANGED <<handlerVars, boardVars, calcVars>>

LegacyReconnect(h, t, s, hs) ==
    /\ legacy' = [legacy_reconnect(legacy, h, t, s, hs) EXCEPT !.op = "reconnect"]
    /\ UNCHANGED <<handlerVars, boardVars, calcVars>>

(***************************************************************************)
(* src/Modules/api/search.py, with utils/nested.py and utils/typechecking.py *)
(***************************************************************************)
MaxCriteria == 1

\* operator markers as the caller writes them: Not(None), Contains(OPEN),
\* In(OPEN, CLOSED), NotIn(CLOSED, None), NotIn("x"), In(), NotIn()
Markers ==
    {[op |-> "$not", value |-> None],
     [op |-> "$contains", value |-> OPEN],
     [op |-> "$in", values |-> <<OPEN, CLOSED>>],
     [op |-> "$notIn", values |-> <<CLOSED, None>>],
     [op |-> "$notIn", values |-> <<SomeStr>>],
     [op |-> "$in", values |-> << >>],
     [op |-> "$notIn", values |-> << >>]}

\* isinstance(value, SequelizeOperator)
IsOperator(value) == "op" \in DOMAIN value

\* the marker is written with at least one argument
HasArgs(m) == "value" \in DOMAIN m \/ Len(m.values) > 0

(***************************************************************************)
(* utils/abstract.py, applied to SequelizeOperator: the decorator puts      *)
(* object.__new__ into each subclass that overrides generate, while the     *)
(* type keeps the slot of the replaced __new__; object.__new__ then refuses *)
(* every argument, so Not(x), Contains(x) and In/NotIn with values raise    *)
(* TypeError and only In() and NotIn() construct a marker.                   *)
(***************************************************************************)
Constructs(m) == ~HasArgs(m)

\* sanitize callables: none given, or status.name.lower() of a Status
NoSanitize == "None"
Lower(n) == IF n = "OPEN" THEN "open" ELSE IF n = "CLOSED" THEN "closed" ELSE n

Sanitize(f, v) ==
    IF v.type = "Status"
    THEN [out |-> [type |-> "str", name |-> Lower(v.name)], err |-> "none"]
    ELSE [out |-> None, err |-> "AttributeError"]

\* `None if value is None else sanitize(value)`, and the same test of
\* _UnaryOp.generate
SanitizeUnlessNone(f, v) ==
    IF f = NoSanitize \/ v = None THEN [out |-> v, err |-> "none"] ELSE Sanitize(f, v)

\* _UnaryOp.generate
_UnaryOp_generate(m, f) ==
    LET s == SanitizeUnlessNone(f, m.value) IN
    [out |-> (m.op :> s.out), err |-> s.err]

\* _SequenceOperator.generate
_SequenceOperator_generate(m, f) ==
    LET s == [i \in 1..Len(m.values) |-> SanitizeUnlessNone(f, m.values[i])]
        bad == {i \in 1..Len(m.values) : s[i].err # "none"}
    IN  IF bad = {}
        THEN [out |-> (m.op :> [type |-> "list",
                                items |-> [i \in 1..Len(m.values) |-> s[i].out]]),
              err |-> "none"]
        ELSE [out |-> None, err |-> s[CHOOSE i \in bad : \A j \in bad : i <= j].err]

operator_generate(m, f) ==
    IF "value" \in DOMAIN m THEN _UnaryOp_generate(m, f)
    ELSE _SequenceOperator_generate(m, f)

\* utils/nested.py: key.split(".") is a sequence of keys here
RECURSIVE set_nested(_, _, _)
set_nested(dest, key, value) ==
    IF Len(key) = 1
    THEN (key[1] :> value) @@ dest
    ELSE LET current == IF key[1] \in DOMAIN dest THEN dest[key[1]] ELSE EmptyDict
         IN  (key[1] :> set_nested(current, Tail(key), value)) @@ dest

NotThere == [type |-> "KeyError", name |-> "KeyError"]

RECURSIVE get_nested(_, _)
get_nested(source, key) ==
    IF key[1] \notin DOMAIN source THEN NotThere
    ELSE IF Len(key) = 1 THEN source[key[1]]
    ELSE get_nested(source[key[1]], Tail(key))

\* utils/typechecking.py: isinstance(value, type_) for some of the types
check_type(value, types) == value.type \in types

\* the calls of Search.add that WebsocketAPIHandler20.__init__ makes for
\* status, title and data.langID, in their order
HandlerAdds ==
    <<[criterion |-> "status", json_key |-> <<"status">>, typed |-> TRUE,
       types |-> {"Status"}, sanitize |-> "lower", nullable |-> FALSE],
      [criterion |-> "title", json_key |-> <<"title">>, typed |-> TRUE,
       types |-> {"str"}, sanitize |-> NoSanitize, nullable |-> TRUE],
      [criterion |-> "lang_id", json_key |-> <<"data", "langID">>, typed |-> TRUE,
       types |-> {"str"}, sanitize |-> NoSanitize, nullable |-> FALSE]>>

\* calls of Search.add that give no types, without and with nullable
AddCalls ==
    {[criterion |-> "notes", json_key |-> <<"notes">>, typed |-> FALSE,
      types |-> {}, sanitize |-> NoSanitize, nullable |-> FALSE],
     [criterion |-> "notes", json_key |-> <<"notes">>, typed |-> FALSE,
      types |-> {}, sanitize |-> NoSanitize, nullable |-> TRUE]}

Criteria ==
    {a.criterion : a \in AddCalls}
    \cup {HandlerAdds[i].criterion : i \in 1..Len(HandlerAdds)}

\* Search.add: `*types` of None raises TypeError before anything is stored
add(reg, a) ==
    IF a.nullable /\ ~a.typed
    THEN [criteria |-> reg, err |-> Raised("TypeError")]
    ELSE [criteria |->
            (a.criterion :>
                [json_key |-> a.json_key, typed |-> a.typed,
                 types |-> (IF a.nullable THEN a.types \cup {"NoneType"} ELSE a.types),
                 sanitize |-> a.sanitize]) @@ reg,
          err |-> NoErr]

\* Search.generate, the body of the loop for one criterion
generate_one(reg, json, key, value) ==
    IF key \notin DOMAIN reg THEN [out |-> json, err |-> Raised("KeyError")]
    ELSE LET e == reg[key] IN
        IF IsOperator(value)
        THEN LET g == operator_generate(value, e.sanitize) IN
             IF g.err # "none" THEN [out |-> json, err |-> Raised(g.err)]
             ELSE [out |-> set_nested(json, e.json_key, g.out), err |-> NoErr]
        ELSE IF e.typed
        THEN IF ~check_type(value, e.types)
             THEN [out |-> json,
                   err |-> [class |-> "TypeError", expected |-> e.types,
                            actual |-> value.type]]
             ELSE IF e.sanitize = NoSanitize \/ value = None
             THEN [out |-> set_nested(json, e.json_key, value), err |-> NoErr]
             ELSE LET s == Sanitize(e.sanitize, value) IN
                  IF s.err # "none" THEN [out |-> json, err |-> Raised(s.err)]
                  ELSE [out |-> set_nested(json, e.json_key, s.out), err |-> NoErr]
        ELSE [out |-> json, err |-> NoErr]

\* Search.generate: criteria is the dict's items in their order
RECURSIVE generate_from(_, _, _, _)
generate_from(reg, criteria, i, json) ==
    IF i > Len(criteria) THEN [out |-> json, err |-> NoErr]
    ELSE LET g == generate_one(reg, json, criteria[i][1], criteria[i][2]) IN
         IF g.err # NoErr THEN [out |-> EmptyDict, err |-> g.err]
         ELSE generate_from(reg, criteria, i + 1, g.out)

generate(reg, criteria) == generate_from(reg, criteria, 1, EmptyDict)

\* the dicts given to generate: up to MaxCriteria criteria, each named once
Items == {<<k, v>> : k \in Criteria, v \in PyValues \cup Markers}

RECURSIVE CriteriaDicts(_)
CriteriaDicts(n) ==
    IF n = 0 THEN {<< >>}
    ELSE LET shorter == CriteriaDicts(n - 1) IN
         shorter \cup
         UNION {{Append(c, it) : it \in {x \in Items :
                                    \A j \in 1..Len(c) : c[j][1] # x[1]}} :
                c \in {d \in shorter : Len(d) = n - 1}}

Queries == CriteriaDicts(MaxCriteria)

\* the adds of WebsocketAPIHandler20.__init__, one after the other
RECURSIVE add_all(_, _, _)
add_all(reg, adds, i) ==
    IF i > Len(adds) THEN reg
    ELSE add_all(add(reg, adds[i]).criteria, adds, i + 1)

SearchSetup ==
    /\ search' = [criteria |-> add_all(search.criteria, HandlerAdds, 1),
                  op |-> "add", arg |-> << >>, out |-> EmptyDict, err |-> NoErr]
    /\ UNCHANGED <<handlerVars, boardVars, legacy, inc, conv, cmdVars>>

SearchAdd(a) ==
    /\ LET r == add(search.criteria, a) IN
        search' = [criteria |-> r.criteria, op |-> "add", arg |-> << >>,
                   out |-> EmptyDict, err |-> r.err]
    /\ UNCHANGED <<handlerVars, boardVars, legacy, inc, conv, cmdVars>>

\* a call generate({...}) as the caller writes it: the markers of the dict
\* are constructed, then Search.generate runs
SearchGenerate(c) ==
    /\ LET built == \A i \in 1..Len(c) : IsOperator(c[i][2]) => Constructs(c[i][2])
           g == IF built THEN generate(search.criteria, c)
                ELSE [out |-> EmptyDict, err |-> Raised("TypeError")]
       IN  search' = [criteria |-> search.criteria, op |-> "generate", arg |-> c,
                      out |-> g.out, err |-> g.err]
    /\ UNCHANGED <<handlerVars, boardVars, legacy, inc, conv, cmdVars>>

(***************************************************************************)
(* src/Modules/api/converter.py.  A dict is a function from keys to dicts  *)
(* and Python values; the repository declares no Converter subclass, so a   *)
(* converter is the sequence of the Fields of a class body, in its order,   *)
(* for a class `klass` with the attributes client and status whose          *)
(* constructor arguments default to None.                                   *)
(***************************************************************************)
MaxDepth == 3

IsDict(v) == "type" \notin DOMAIN v

NoTransform == "None"
NotSet == [type |-> "_NotSet", name |-> "_NotSet"]
Upper(n) == IF n = "open" THEN "OPEN" ELSE IF n = "closed" THEN "CLOSED" ELSE n
StatusNames == {OPEN.name, CLOSED.name}

\* the callables given as to_json and to_obj: `status.name.lower()` as in
\* v20.py:46-47 and `Status[name.upper()]` as in v20.py:229; calling None
\* raises TypeError
Call(f, v) ==
    IF f = NoTransform THEN [val |-> None, err |-> "TypeError"]
    ELSE IF IsDict(v) THEN [val |-> None, err |-> "AttributeError"]
    ELSE IF f = "status_name"
    THEN IF v.type = "Status"
         THEN [val |-> [type |-> "str", name |-> Lower(v.name)], err |-> "none"]
         ELSE [val |-> None, err |-> "AttributeError"]
    ELSE IF v.type # "str" THEN [val |-> None, err |-> "AttributeError"]
    ELSE IF Upper(v.name) \in StatusNames
    THEN [val |-> [type |-> "Status", name |-> Upper(v.name)], err |-> "none"]
    ELSE [val |-> None, err |-> "KeyError"]

\* converter.get_nested
RECURSIVE converter_get_nested(_, _)
converter_get_nested(source, key) ==
    IF key = << >> THEN [val |-> source, err |-> "none"]
    ELSE IF ~IsDict(source) THEN [val |-> None, err |-> "TypeError"]
    ELSE IF key[1] \notin DOMAIN source THEN [val |-> None, err |-> "KeyError"]
    ELSE converter_get_nested(source[key[1]], Tail(key))

\* converter.set_nested: every key but the last is looked up by setdefault
\* in `dest` itself (line 64), and the value goes into the dict found for
\* the last of them
converter_set_nested(dest, key, value) ==
    LET n == Len(key)
        split_keys == {key[i] : i \in 1..(n - 1)}
        defaulted == [k \in DOMAIN dest \cup split_keys |->
                        IF k \in DOMAIN dest THEN dest[k] ELSE EmptyDict]
    IN  IF n = 1 THEN [out |-> (key[1] :> value) @@ dest, err |-> "none"]
        ELSE LET current == defaulted[key[n - 1]] IN
             IF ~IsDict(current) THEN [out |-> defaulted, err |-> "TypeError"]
             ELSE [out |-> [defaulted EXCEPT ![key[n - 1]] = (key[n] :> value) @@ current],
                   err |-> "none"]

\* Field.from_json; the defaults here are values, never a Field
from_json(field, json) ==
    LET g == converter_get_nested(json, field.json_path)
        r == IF g.err # "none" \/ field.to_obj = NoTransform THEN g
             ELSE Call(field.to_obj, g.val)
    IN  IF r.err = "KeyError" /\ field.default # NotSet
        THEN [val |-> field.default, err |-> "none"]
        ELSE r

\* Field.from_model: with to_json given, lines 160 and 162 call self.to_obj;
\* an AttributeError leaves as KeyError
from_model(field, obj) ==
    IF field.to_json = NoTransform
    THEN [val |-> obj[field.attr_name], err |-> "none"]
    ELSE LET c == Call(field.to_obj, obj[field.attr_name]) IN
         IF c.err = "AttributeError" THEN [val |-> None, err |-> "KeyError"] ELSE c

\* Converter.to_json, the loop from field i on
RECURSIVE to_json_from(_, _, _, _)
to_json_from(fields, i, obj, json) ==
    IF i > Len(fields) THEN [out |-> json, err |-> "none"]
    ELSE IF fields[i].retention \notin {"JSON_ONLY", "BOTH"}
    THEN to_json_from(fields, i + 1, obj, json)
    ELSE LET r == from_model(fields[i], obj) IN
         IF r.err # "none" THEN [out |-> json, err |-> r.err]
         ELSE IF r.val = None THEN to_json_from(fields, i + 1, obj, json)
         ELSE LET s == converter_set_nested(json, fields[i].json_path, r.val) IN
              IF s.err # "none" THEN s
              ELSE to_json_from(fields, i + 1, obj, s.out)

to_json(fields, obj) == to_json_from(fields, 1, obj, EmptyDict)

\* Converter.to_obj, the loop from field i on
RECURSIVE to_obj_from(_, _, _, _)
to_obj_from(fields, i, json, constructor_args) ==
    IF i > Len(fields) THEN [out |-> constructor_args, err |-> "none"]
    ELSE IF fields[i].retention \notin {"MODEL_ONLY", "BOTH"}
    THEN to_obj_from(fields, i + 1, json, constructor_args)
    ELSE LET r == from_json(fields[i], json) IN
         IF r.err # "none" THEN [out |-> constructor_args, err |-> r.err]
         ELSE IF r.val = None THEN to_obj_from(fields, i + 1, json, constructor_args)
         ELSE to_obj_from(fields, i + 1, json,
                          (fields[i].constructor_arg :> r.val) @@ constructor_args)

Attrs == {"client", "status"}

\* cls._klass(**constructor_args)
klass(constructor_args) ==
    [a \in Attrs |-> IF a \in DOMAIN constructor_args THEN constructor_args[a] ELSE None]

to_obj(fields, json) ==
    LET r == to_obj_from(fields, 1, json, EmptyDict) IN
    [out |-> IF r.err = "none" THEN klass(r.out) ELSE EmptyDict, err |-> r.err]

\* json_path of the given depth for an attribute
Wrappers == <<"data", "attributes", "meta", "extra">>
Path(attr, d) == SubSeq(Wrappers, 1, d - 1) \o <<attr>>
Depths == 1..MaxDepth

Transforms ==
    {[to_obj |-> NoTransform, to_json |-> NoTransform],
     [to_obj |-> "status_of", to_json |-> "status_name"],
     [to_obj |-> NoTransform, to_json |-> "status_name"]}

\* Field(json_path, ...) after __set_name__
Field(json_path, name, t, default, retention) ==
    [json_path |-> json_path, attr_name |-> name, constructor_arg |-> name,
     to_obj |-> t.to_obj, to_json |-> t.to_json, default |-> default,
     retention |-> retention]

ClientFields ==
    {Field(Path("client", d), "client", [to_obj |-> NoTransform, to_json |-> NoTransform],
           NotSet, r) : d \in Depths, r \in {"BOTH", "JSON_ONLY"}}

StatusFields ==
    {Field(Path("status", d), "status", t, dflt, "BOTH") :
        d \in Depths, t \in Transforms, dflt \in {NotSet, None}}

Converters ==
    {<<f>> : f \in ClientFields \cup StatusFields}
    \cup {<<f, g>> : f \in ClientFields, g \in StatusFields}

Entities == [client : {SomeStr, None}, status : {OPEN, None}]

\* await C.to_json(E)
ToJson(c, e) ==
    /\ LET r == to_json(c, e) IN
        conv' = [op |-> "to_json", converter |-> c, entity |-> e,
                 json |-> r.out, obj |-> EmptyDict, err |-> r.err]
    /\ UNCHANGED <<handlerVars, boardVars, legacy, inc, search, cmdVars>>

\* await C.to_obj(...) of the json that C.to_json returned
ToObj ==
    /\ conv.op = "to_json"
    /\ conv.err = "none"
    /\ LET r == to_obj(conv.converter, conv.json) IN
        conv' = [conv EXCEPT !.op = "to_obj", !.obj = r.out, !.err = r.err]
    /\ UNCHANGED <<handlerVars, boardVars, legacy, inc, search, cmdVars>>

(***************************************************************************)
(* src/Modules/rat_command.py: the registry of commands.  A function is     *)
(* named by a string; NotCallable stands for None and any other value that  *)
(* is not callable.                                                         *)
(***************************************************************************)
MaxAliases == 2

AliasNames == {"fuel", "FUEL", "rats"}
casefold(name) == IF name = "FUEL" THEN "fuel" ELSE name

NotCallable == "None"
Funcs == {"foo", "bar"}

RECURSIVE AliasTuples(_)
AliasTuples(n) ==
    IF n = 0 THEN {<< >>}
    ELSE AliasTuples(n - 1)
         \cup {Append(t, a) : t \in {u \in AliasTuples(n - 1) : Len(u) = n - 1},
                              a \in AliasNames}

Aliases == AliasTuples(MaxAliases)

\* mutant: no alias is found registered
IsRegisteredNever(reg, alias) == FALSE

\* `alias in _registered_commands`
IsRegistered(reg, alias) == alias \in DOMAIN reg

\* _register, the loop over the casefolded names from the i-th on
RECURSIVE register_from(_, _, _, _)
register_from(reg, func, names, i) ==
    IF i > Len(names) THEN [commands |-> reg, err |-> "none", ret |-> TRUE]
    ELSE LET alias == casefold(names[i]) IN
         IF IsRegistered(reg, alias)
         THEN [commands |-> reg, err |-> "NameCollisionException", ret |-> FALSE]
         ELSE register_from((alias :> func) @@ reg, func, names, i + 1)

\* _register
_register(reg, func, names) ==
    IF func = NotCallable THEN [commands |-> reg, err |-> "none", ret |-> FALSE]
    ELSE register_from(reg, func, names, 1)

\* command(*aliases)(func)
command(reg, func, aliases) ==
    LET r == _register(reg, func, aliases) IN
    IF r.err = "none" /\ ~r.ret
    THEN [commands |-> r.commands, err |-> "InvalidCommandException"]
    ELSE [commands |-> r.commands, err |-> r.err]

Command(func, aliases) ==
    /\ LET r == command(commands, func, aliases) IN
        /\ commands' = r.commands
        /\ cres' = [func |-> func, aliases |-> aliases, err |-> r.err]
    /\ UNCHANGED <<handlerVars, boardVars, legacy, inc, search, conv, pres, vres>>

\* _flush
Flush ==
    /\ commands' = EmptyDict
    /\ cres' = NoReg
    /\ UNCHANGED <<handlerVars, boardVars, legacy, inc, search, conv, pres, vres>>

(***************************************************************************)
(* src/Modules/parametrization.py.  context.words is the command name       *)
(* followed by the supplied arguments; an index is the Python index, so     *)
(* words[index] of the code is words[index + 1] here.                       *)
(***************************************************************************)
MaxParams == 3
MaxWords == 5

ArgWords == <<"a", "b", "c", "d", "e", "f">>
Words(n) == <<"cmd">> \o SubSeq(ArgWords, 1, n)

\* WordParam(), WordParam(optional=True), TextParam(), TextParam(optional=True)
ParamKinds == [kind : {"word", "text"}, optional : BOOLEAN]

RECURSIVE ParamTuples(_)
ParamTuples(n) ==
    IF n = 0 THEN {<< >>}
    ELSE ParamTuples(n - 1)
         \cup {Append(t, k) : t \in {u \in ParamTuples(n - 1) : Len(u) = n - 1},
                              k \in ParamKinds}

\* the declarations the docstrings allow: no mandatory parameter after an
\* optional one, nothing after a TextParam
WellFormed(params) ==
    \A i \in 1..(Len(params) - 1) :
        /\ params[i].kind # "text"
        /\ params[i].optional => params[i + 1].optional

Params == {t \in ParamTuples(MaxParams) : WellFormed(t)}

Str(ws) == [type |-> "str", words |-> ws]

\* _ArgumentProvider.__init__
ArgumentProvider == [index |-> 1, is_at_end |-> FALSE]

\* _ArgumentProvider.next_arg
next_arg(state, words) ==
    IF state.is_at_end THEN [state |-> state, val |-> None, err |-> "ValueError"]
    ELSE IF state.index + 1 > Len(words)
    THEN [state |-> state, val |-> None, err |-> "IndexError"]
    ELSE [state |-> [index |-> state.index + 1,
                     is_at_end |-> state.index + 1 >= Len(words)],
          val |-> Str(<<words[state.index + 1]>>), err |-> "none"]

\* _ArgumentProvider.next_arg_eol; words_eol[index] is the text from that
\* word to the end of the line
next_arg_eol(state, words) ==
    IF state.is_at_end THEN [state |-> state, val |-> None, err |-> "ValueError"]
    ELSE IF state.index + 1 > Len(words)
    THEN [state |-> [state EXCEPT !.is_at_end = TRUE], val |-> None,
          err |-> "IndexError"]
    ELSE [state |-> [state EXCEPT !.is_at_end = TRUE],
          val |-> Str(SubSeq(words, state.index + 1, Len(words))), err |-> "none"]

\* WordParam.evaluate and TextParam.evaluate
evaluate(param, state, words) ==
    IF param.kind = "word"
    THEN [res |-> "CONTINUE"] @@ next_arg(state, words)
    ELSE [res |-> "DONE"] @@ next_arg_eol(state, words)

\* the end of wrapper: too many arguments, or the call of fun
wrapper_end(state, target_args) ==
    IF ~state.is_at_end
    THEN [called |-> FALSE, args |-> target_args, usage |-> TRUE, err |-> "none"]
    ELSE [called |-> TRUE, args |-> target_args, usage |-> FALSE, err |-> "none"]

\* wrapper, the loop over params from the i-th on
RECURSIVE wrapper_from(_, _, _, _, _)
wrapper_from(params, i, state, target_args, words) ==
    IF i > Len(params) THEN wrapper_end(state, target_args)
    ELSE IF state.is_at_end
    THEN IF params[i].optional
         THEN wrapper_from(params, i + 1, state, Append(target_args, None), words)
         ELSE [called |-> FALSE, args |-> target_args, usage |-> TRUE, err |-> "none"]
    ELSE LET e == evaluate(params[i], state, words) IN
         IF e.err # "none"
         THEN [called |-> FALSE, args |-> target_args, usage |-> FALSE, err |-> e.err]
         ELSE IF e.res = "CONTINUE"
         THEN wrapper_from(params, i + 1, e.state, Append(target_args, e.val), words)
         ELSE wrapper_end(e.state, Append(target_args, e.val))

\* parametrize(*params)(fun)(context); target_args without the context
wrapper(params, words) == wrapper_from(params, 1, ArgumentProvider, << >>, words)

Invoke(params, n) ==
    /\ LET r == wrapper(params, Words(n)) IN
        pres' = [op |-> "call", params |-> params, words |-> Words(n),
                 called |-> r.called, args |-> r.args, usage |-> r.usage,
                 err |-> r.err]
    /\ UNCHANGED <<handlerVars, boardVars, legacy, inc, search, conv, commands, cres, vres>>

(***************************************************************************)
(* src/Modules/api/versions.py: require_api_version.  Both versions are     *)
(* taken by their .value, a string, and compared as strings.                *)
(***************************************************************************)
\* position of a version string in the order of str: "v2.0" < "v2.1"
StrRank(v) == IF v = "v2.0" THEN 0 ELSE 1

\* actual_version >= version, on strings
StrGe(a, b) == StrRank(a) >= StrRank(b)

\* `exact and actual_version == version or actual_version >= version`
VersionOk(exact, actual_version, version) ==
    (exact /\ actual_version = version) \/ StrGe(actual_version, version)

\* require_api_version(version, exact)(fun)(context), on the handler of the bot
RequireApiVersion(version, exact) ==
    /\ LET ok == VersionOk(exact, api_version, version) IN
        vres' = [op |-> "call", version |-> version, exact |-> exact,
                 actual_version |-> api_version, executed |-> ok, warned |-> ~ok]
    /\ UNCHANGED <<handlerVars, boardVars, legacy, inc, search, conv, commands, cres, pres>>

(***************************************************************************)
(* The rats a response carries beside its rescue: _message_handler hands    *)
(* the "included" list to _cache_included before it stores the response,    *)
(* and _rescue_from_json, run by the caller on the stored response, takes   *)
(* each rat of the rescue from _rat_cache or fetches it.  A rat is named by *)
(* its id; a response without "included" is one with none included.         *)
(***************************************************************************)
RatIds == {"rat1", "rat2", "rat3"}

\* BaseWebsocketAPIHandler._cache_included: abstract, its body is `pass`,
\* and no handler class overrides it
_cache_included(cache, included) == cache

\* _rat_from_json: self._rat_cache[result.uuid] = result
_rat_from_json(cache, rat) == cache \cup {rat}

\* _rescue_from_json, the loop over the rats of the rescue: a rat in the
\* cache is taken from it, any other is fetched by get_rat_by_id, whose
\* get_rats decodes it with _rat_from_json
RECURSIVE rats_from_json(_, _, _)
rats_from_json(cache, rats, fetched) ==
    IF rats = {} THEN [cache |-> cache, fetched |-> fetched]
    ELSE LET rat == CHOOSE r \in rats : TRUE IN
         IF rat \in cache THEN rats_from_json(cache, rats \ {rat}, fetched)
         ELSE rats_from_json(_rat_from_json(cache, rat), rats \ {rat}, fetched + 1)

\* _message_handler on the response to get_rescues
ReceiveIncluded(included, rats) ==
    /\ inc' = [cache |-> _cache_included(inc.cache, included), op |-> "response",
               included |-> included, rats |-> rats, before |-> inc.cache,
               requests |-> 0]
    /\ UNCHANGED <<handlerVars, boardVars, legacy, search, conv, cmdVars>>

\* get_rescues after the response: _rescue_from_json and the requests of
\* its get_rat_by_id calls
DecodeRescue ==
    /\ inc.op = "response"
    /\ LET r == rats_from_json(inc.cache, inc.rats, 0) IN
        inc' = [inc EXCEPT !.op = "decoded", !.cache = r.cache, !.requests = r.fetched]
    /\ UNCHANGED <<handlerVars, boardVars, legacy, search, conv, cmdVars>>

Next ==
    \/ Connect
    \/ \E hs \in Handshakes : Handshake(hs)
    \/ Disconnect
    \/ \E g \in 1..MaxConn : ListenerExit(g)
    \/ \E c \in Callers : Request(c)
    \/ \E c \in Callers : Retrieve(c)
    \/ \E d \in Docs : Receive(d)
    \/ \E r \in Rescues, o \in BOOLEAN : BoardAppend(r, o)
    \/ \E r \in Rescues : BoardModify(r)
    \/ \E r \in Rescues : BoardRemove(r)
    \/ ClearBoard
    \/ \E hs \in Handshakes : LegacyConnect(hs)
    \/ LegacyDisconnect
    \/ \E h \in Hosts \cup {NoArg}, t \in AuthTokens \cup {NoArg},
          s \in Flags \cup {NoArg}, hs \in Handshakes : LegacyReconnect(h, t, s, hs)
    \/ SearchSetup
    \/ \E a \in AddCalls : SearchAdd(a)
    \/ \E c \in Queries : SearchGenerate(c)
    \/ \E c \in Converters, e \in Entities : ToJson(c, e)
    \/ ToObj
    \/ \E f \in Funcs \cup {NotCallable}, a \in Aliases : Command(f, a)
    \/ Flush
    \/ \E p \in Params, n \in 0..MaxWords : Invoke(p, n)
    \/ \E v \in Versions, e \in BOOLEAN : RequireApiVersion(v, e)
    \/ \E i \in SUBSET RatIds, r \in SUBSET RatIds : ReceiveIncluded(i, r)
    \/ DecodeRescue

Spec == Init /\ [][Next]_vars

(***************************************************************************)
(* The request multiplexer and the dispatch loop of a WebsocketAPIHandler20 *)
(* constructed on an open connection, the server sending any document.      *)
(***************************************************************************)
MuxInit == Init /\ connected /\ api_version = "v2.0"

MuxNext ==
    \/ \E c \in Callers : Request(c)
    \/ \E c \in Callers : Retrieve(c)
    \/ \E d \in Docs : Receive(d)

MuxSpec == MuxInit /\ [][MuxNext]_vars

(***************************************************************************)
(* The same, the server sending only plain responses: documents with a      *)
(* request id (of a waiting request or not), without error code or event.   *)
(***************************************************************************)
PlainResponses ==
    {d \in Docs : d.json /\ d.rid \in Ids /\ d.code = NoCode /\ d.event = NoEvent}

RespNext ==
    \/ \E c \in Callers : Request(c)
    \/ \E c \in Callers : Retrieve(c)
    \/ \E d \in PlainResponses : Receive(d)

RespSpec == MuxInit /\ [][RespNext]_vars

(***************************************************************************)
(* The life of the connection: connect() and disconnect() called one after  *)
(* the other by one task, the listener task, and the server pushing         *)
(* documents without request id. No request is made.                        *)
(***************************************************************************)
Pushes == {d \in Docs : d.rid = NoId}

ConnNext ==
    \/ Connect
    \/ \E hs \in Handshakes : Handshake(hs)
    \/ Disconnect
    \/ \E g \in 1..MaxConn : ListenerExit(g)
    \/ \E d \in Pushes : Receive(d)

ConnSpec == Init /\ [][ConnNext]_vars

(***************************************************************************)
(* Requests pending while the session is disconnected and connected again:  *)
(* connect() and disconnect() with a well-formed connect message, requests  *)
(* and plain responses.                                                     *)
(***************************************************************************)
ReconnNext ==
    \/ Connect
    \/ \E hs \in Versions : Handshake(hs)
    \/ Disconnect
    \/ \E g \in 1..MaxConn : ListenerExit(g)
    \/ \E c \in Callers : Request(c)
    \/ \E c \in Callers : Retrieve(c)
    \/ \E d \in PlainResponses : Receive(d)

ReconnSpec == Init /\ [][ReconnNext]_vars

(***************************************************************************)
(* The multiplexer with plain responses and with messages that cannot be    *)
(* decoded: invalid JSON and a request id that is no UUID, as a string and  *)
(* as another JSON value.                                                   *)
(***************************************************************************)
Undecodable ==
    {[json |-> FALSE, rid |-> NoId, code |-> NoCode, event |-> NoEvent],
     [json |-> TRUE, rid |-> BadId, code |-> NoCode, event |-> NoEvent],
     [json |-> TRUE, rid |-> NumId, code |-> NoCode, event |-> NoEvent]}

DecodeNext ==
    \/ \E c \in Callers : Request(c)
    \/ \E c \in Callers : Retrieve(c)
    \/ \E d \in PlainResponses \cup Undecodable : Receive(d)

DecodeSpec == MuxInit /\ [][DecodeNext]_vars

(***************************************************************************)
(* Pushes of the three registered events, each with the rescue its data     *)
(* decodes to and that rescue's open flag, received by the dispatch loop of *)
(* a connected handler whose board is also called locally.                  *)
(***************************************************************************)
EventDocs ==
    {[json |-> TRUE, rid |-> NoId, code |-> NoCode, event |-> e,
      rescue |-> r, open |-> o] : e \in KnownEvents, r \in Rescues, o \in BOOLEAN}

EventsOf(e) ==
    {[json |-> TRUE, rid |-> NoId, code |-> NoCode, event |-> e,
      rescue |-> r, open |-> o] : r \in Rescues, o \in BOOLEAN}

EventNext ==
    \/ \E d \in EventDocs : Receive(d)
    \/ \E r \in Rescues, o \in BOOLEAN : BoardAppend(r, o)
    \/ \E r \in Rescues : BoardModify(r)
    \/ \E r \in Rescues : BoardRemove(r)
    \/ ClearBoard

EventSpec == MuxInit /\ [][EventNext]_vars

(***************************************************************************)
(* Local appends and removes on the board racing with rescueDeleted pushes  *)
(* received by the dispatch loop. RatBoard's methods and the event handlers *)
(* are plain functions without an await, so each runs as one step of the    *)
(* event loop. Neither remove nor the dispatch looks at created_at, which   *)
(* is the same for all rescues here.                                        *)
(***************************************************************************)
RaceRescues ==
    [case_id : CaseIds \cup {NoCase}, client : Clients, created_at : {"t1"},
     board_index : {NoIndex} \cup 0..MaxIndex]

RaceDocs ==
    {[json |-> TRUE, rid |-> NoId, code |-> NoCode, event |-> "rescueDeleted",
      rescue |-> r, open |-> o] : r \in RaceRescues, o \in BOOLEAN}

RaceNext ==
    \/ \E d \in RaceDocs : Receive(d)
    \/ \E r \in RaceRescues : BoardAppend(r, FALSE)
    \/ \E r \in RaceRescues : BoardRemove(r)

RaceSpec == MuxInit /\ [][RaceNext]_vars

(***************************************************************************)
(* The board alone, called locally, beside a handler that is not connected. *)
(***************************************************************************)
BoardNext ==
    \/ \E r \in Rescues, o \in BOOLEAN : BoardAppend(r, o)
    \/ \E r \in Rescues : BoardModify(r)
    \/ \E r \in Rescues : BoardRemove(r)
    \/ ClearBoard

BoardInit == Init /\ ~connected /\ api_version = "v2.0"

BoardSpec == BoardInit /\ [][BoardNext]_vars

(***************************************************************************)
(* A Search alone: criteria added and dicts of criteria generated.          *)
(***************************************************************************)
SearchNext ==
    \/ SearchSetup
    \/ \E a \in AddCalls : SearchAdd(a)
    \/ \E c \in Queries : SearchGenerate(c)

SearchSpec == BoardInit /\ [][SearchNext]_vars

(***************************************************************************)
(* A converter alone: entities encoded, and what was encoded decoded.       *)
(***************************************************************************)
ConvNext ==
    \/ \E c \in Converters, e \in Entities : ToJson(c, e)
    \/ ToObj

ConvSpec == BoardInit /\ [][ConvNext]_vars

(***************************************************************************)
(* The registry of commands alone.                                          *)
(***************************************************************************)
CommandNext ==
    \/ \E f \in Funcs \cup {NotCallable}, a \in Aliases : Command(f, a)
    \/ Flush

CommandSpec == BoardInit /\ [][CommandNext]_vars

(***************************************************************************)
(* Commands wrapped by parametrize, called with any number of arguments.    *)
(***************************************************************************)
ParamNext == \E p \in Params, n \in 0..MaxWords : Invoke(p, n)

ParamSpec == BoardInit /\ [][ParamNext]_vars

(***************************************************************************)
(* Commands wrapped by require_api_version, called while the handler of     *)
(* either version is connected and disconnected.                            *)
(***************************************************************************)
VersionNext ==
    \/ Connect
    \/ \E hs \in Handshakes : Handshake(hs)
    \/ Disconnect
    \/ \E g \in 1..MaxConn : ListenerExit(g)
    \/ \E v \in Versions, e \in BOOLEAN : RequireApiVersion(v, e)

VersionSpec == Init /\ [][VersionNext]_vars

(***************************************************************************)
(* Responses with included rats, and their decoding, alone.                 *)
(***************************************************************************)
IncludedNext ==
    \/ \E i \in SUBSET RatIds, r \in SUBSET RatIds : ReceiveIncluded(i, r)
    \/ DecodeRescue

IncludedSpec == MuxInit /\ [][IncludedNext]_vars

(***************************************************************************)
(* The handler of src/Modules/api_handler.py alone.                         *)
(***************************************************************************)
LegacyNext ==
    \/ \E hs \in Handshakes : LegacyConnect(hs)
    \/ LegacyDisconnect
    \/ \E h \in Hosts \cup {NoArg}, t \in AuthTokens \cup {NoArg},
          s \in Flags \cup {NoArg}, hs \in Handshakes : LegacyReconnect(h, t, s, hs)

LegacySpec == Init /\ [][LegacyNext]_vars

(***************************************************************************)
(*                              Properties                                  *)
(***************************************************************************)

\* C1: whatever the number of requests outstanding and the order in which the
\* responses arrive, a response is buffered under its own request id, and a
\* caller that gets a response gets the one carrying the id of its request.
C1_OwnResponse ==
    /\ \A k \in DOMAIN responses : responses[k].rid = k
    /\ \A c \in Callers :
        pc[c] = "done" /\ outcome[c] = "returned" => result[c].rid = rid[c]

\* one caller has its response while the response of another, still polling, is buffered
C1_Witness ==
    \E c1, c2 \in Callers :
        /\ c1 # c2
        /\ pc[c1] = "done" /\ outcome[c1] = "returned" /\ result[c1].rid = rid[c1]
        /\ pc[c2] = "polling" /\ rid[c2] \in DOMAIN responses /\ rid[c2] # rid[c1]

\* the documents that carry a given request id
DocsOf(id) ==
    {[json |-> TRUE, rid |-> id, code |-> c, event |-> NoEvent] : c \in Codes \cup {NoCode}}
    \cup {[json |-> TRUE, rid |-> id, code |-> NoCode, event |-> "rescueCreated"]}

\* no other outstanding request holds the id of caller c's request
NotReissued(c) ==
    \A o \in Callers \ {c} : ~(pc[o] = "polling" /\ rid[o] = rid[c])

\* C2: a request whose id is still waiting after max_wait sleeps ends with
\* TimeoutError (and only such a request does), its id leaves the waiting set;
\* a response for that id arriving afterwards is logged as unexpected and is
\* neither buffered nor delivered.
C2_TimeoutDiscardsLate ==
    [][ /\ \A c \in Callers :
            (pc[c] = "polling" /\ pc'[c] = "done")
            => /\ (outcome'[c] = "TimeoutError") = (polls[c] = MaxWait /\ rid[c] \in waiting)
               /\ outcome'[c] = "TimeoutError"
                  => rid'[c] = rid[c] /\ rid[c] \notin waiting'
                     /\ rid[c] \notin DOMAIN responses'
        /\ \A c \in Callers :
            (pc[c] = "done" /\ outcome[c] = "TimeoutError" /\ NotReissued(c))
            => \A d \in DocsOf(rid[c]) :
                (log'.rid = d.rid /\ Receive(d))
                => /\ log' = [kind |-> "unexpected", rid |-> rid[c]]
                   /\ UNCHANGED <<waiting, responses, callVars>>
      ]_vars

\* a request has timed out and a response carrying its id was then dropped
C2_Witness ==
    \E c \in Callers :
        /\ pc[c] = "done" /\ outcome[c] = "TimeoutError"
        /\ log = [kind |-> "unexpected", rid |-> rid[c]]
        /\ rid[c] \notin waiting /\ rid[c] \notin DOMAIN responses

\* C3: when a call of _request completes, with whatever outcome and however
\* the arrival of the response and the expiry of the deadline interleave, its
\* id is neither in the waiting set nor in the response buffer.
C3_NoResidue ==
    [][ \A c \in Callers :
            (pc[c] = "polling" /\ pc'[c] = "done")
            => rid[c] \notin waiting' /\ rid[c] \notin DOMAIN responses'
      ]_vars

\* C4: an id is registered only if no waiting request and no unretrieved
\* response has it: the waiting set and the response buffer are disjoint and
\* no two outstanding requests have the same id.
C4_FreshId ==
    /\ waiting \cap DOMAIN responses = {}
    /\ \A c1, c2 \in Callers :
        c1 # c2 /\ pc[c1] = "polling" /\ pc[c2] = "polling" => rid[c1] # rid[c2]
    /\ \A c \in Callers :
        pc[c] = "polling" => rid[c] \in waiting \cup DOMAIN responses

\* two requests are outstanding, one still waiting, one with its response buffered
C4_Witness ==
    \E c1, c2 \in Callers :
        /\ c1 # c2
        /\ pc[c1] = "polling" /\ rid[c1] \in waiting
        /\ pc[c2] = "polling" /\ rid[c2] \in DOMAIN responses

\* C5: a message carrying the id of a response that is already buffered is
\* dropped as unexpected and changes nothing; a response given to a caller is
\* the buffered one and leaves the buffer with it, no other caller moving in
\* that step; a call that has ended (timed out included) keeps its outcome.
C5_ResolvedOnce ==
    [][ /\ \A k \in DOMAIN responses : \A d \in DocsOf(k) :
            (log'.rid = d.rid /\ Receive(d))
            => /\ log' = [kind |-> "unexpected", rid |-> k]
               /\ UNCHANGED <<waiting, responses, callVars>>
        /\ \A c \in Callers :
            (pc[c] = "polling" /\ pc'[c] = "done" /\ outcome'[c] = "returned")
            => /\ rid[c] \in DOMAIN responses
               /\ result'[c] = responses[rid[c]]
               /\ rid[c] \notin DOMAIN responses'
               /\ \A o \in Callers \ {c} :
                    pc'[o] = pc[o] /\ outcome'[o] = outcome[o] /\ result'[o] = result[o]
        /\ \A c \in Callers :
            (pc[c] = "done" /\ pc'[c] = "done")
            => outcome'[c] = outcome[c] /\ result'[c] = result[c]
      ]_vars

\* a second message with the id of a buffered, not yet collected response was dropped
C5_Witness ==
    /\ log.kind = "unexpected"
    /\ log.rid \in DOMAIN responses
    /\ \E c \in Callers : pc[c] = "polling" /\ rid[c] = log.rid

\* C6: the response to a request carrying code unauthorized, forbidden or
\* internal_server makes the call raise UnauthorizedError, ForbiddenError or
\* InternalAPIError; with any other code no error is raised and the caller
\* gets the document with its raw code.
C6_TypedErrors ==
    [][ \A c \in Callers :
            (/\ pc[c] = "polling" /\ pc'[c] = "done"
             /\ rid[c] \in DOMAIN responses /\ rid[c] \notin DOMAIN responses')
            => LET r == responses[rid[c]] IN
               CASE r.code = "unauthorized" -> outcome'[c] = "UnauthorizedError"
                 [] r.code = "forbidden" -> outcome'[c] = "ForbiddenError"
                 [] r.code = "internal_server" -> outcome'[c] = "InternalAPIError"
                 [] OTHER -> outcome'[c] = "returned" /\ result'[c] = r
      ]_vars

\* the rule C7 gives a parseable document without malformed id
ClaimedRule(d, w) ==
    IF d.rid \in w THEN "resolved"
    ELSE IF d.rid \in Ids THEN "unexpected"
    ELSE IF d.code # NoCode THEN "code"
    ELSE IF d.event # NoEvent THEN "event"
    ELSE "unrecognized"

\* C7: an inbound document takes the first rule that applies: the waiter of
\* its id is resolved (no event handling); else its error code is logged;
\* else the handler of its event is invoked with the decoded payload, the
\* dispatch loop going on; else it is logged as unrecognized. A document with
\* an unrecognized id changes neither waiting set nor buffer nor board.
C7_Classified ==
    [][ \A d \in Docs :
            (d.json /\ d.rid \notin {BadId, NumId} /\ Receive(d))
            => LET k == ClaimedRule(d, waiting) IN
               /\ log'.kind = (IF k = "event" THEN "invoked" ELSE k)
               /\ k = "resolved" => d.rid \in DOMAIN responses' /\ d.rid \notin waiting'
               /\ k # "resolved" => UNCHANGED <<waiting, responses>>
               /\ listeners' = listeners
               /\ board' = board
      ]_vars

\* C8: connect() on a connect message whose version token is not the
\* handler's api_version fails with MismatchedVersionError carrying both
\* versions, the channel closed and no listener started; on the handler's own
\* token it succeeds, the channel open and the listener running.
C8_VersionCheck ==
    [][ \A hs \in Tokens :
            Handshake(hs)
            => IF hs = api_version
               THEN ctl'.err = "none" /\ connOpen' /\ gen \in listeners'
               ELSE /\ ctl'.err = "MismatchedVersionError"
                    /\ ctl'.handler_ver = api_version /\ ctl'.api_ver = hs
                    /\ ~connOpen' /\ gen \notin listeners'
      ]_vars

\* C9: connect() on a connect message without API-Version succeeds: the
\* channel stays open and the listener runs.
C9_NoVersionTolerated ==
    [][ Handshake(NoVersion)
            => ctl'.err = "none" /\ connOpen' /\ gen \in listeners'
      ]_vars

\* C10: connect() on a session whose channel is open raises the error that
\* reports "Already connected" (a NotConnectedError) and disconnect() on a session without open channel
\* raises the not-connected error; neither changes the channel, the number of
\* channels opened or the listener tasks.
C10_SequencingErrors ==
    [][ /\ (ctl' # ctl /\ ctl'.op = "disconnect" /\ (gen = 0 \/ ~connOpen))
            => /\ ctl'.err = "NotConnectedError" /\ ctl'.msg = "Not connected to API"
               /\ UNCHANGED <<gen, connOpen, handshaking, listeners>>
        /\ (ctl' # ctl /\ ctl'.op = "disconnect" /\ gen > 0 /\ connOpen)
            => ctl'.err = "none" /\ ~connOpen'
        /\ (ctl' # ctl /\ ctl'.op = "connect" /\ ~handshaking /\ gen > 0 /\ connOpen)
            => /\ ctl'.err = "NotConnectedError"
               /\ ctl'.msg = "Already connected to a server"
               /\ UNCHANGED <<gen, connOpen, handshaking, listeners>>
      ]_vars

\* a disconnect() on a session that had been connected and is not any more
C10_Witness ==
    /\ ctl.op = "disconnect" /\ ctl.err = "NotConnectedError"
    /\ gen > 0 /\ ~connOpen

\* the listener tasks that can still receive: a task whose channel is closed
\* has only its return left (recv raises ConnectionClosed)
Running == {g \in listeners : g = gen /\ connOpen}

\* C11: at most one dispatch loop runs at any time, and one runs whenever
\* the session is open (connect() not being in progress).
C11_OneLoop ==
    /\ Cardinality(Running) <= 1
    /\ (connected /\ ~handshaking) => Running # {}

\* C12: reconnect() makes every argument given (a host, a token, tls True or
\* False) the handler's new value and keeps the value of every argument
\* omitted; called on an open session against a server of the handler's
\* version, it leaves the session open with its listener running.
C12_Reconfigure ==
    [][ \A h \in Hosts \cup {NoArg}, t \in AuthTokens \cup {NoArg},
           s \in Flags \cup {NoArg}, hs \in Handshakes :
            LegacyReconnect(h, t, s, hs)
            => /\ legacy'.hostname = (IF h # NoArg THEN h ELSE legacy.hostname)
               /\ legacy'.token = (IF t # NoArg THEN t ELSE legacy.token)
               /\ legacy'.tls = (IF s # NoArg THEN s ELSE legacy.tls)
               /\ (legacy.open /\ hs = LegacyVersion)
                    => legacy'.open /\ legacy'.listener
      ]_vars

\* C13: a request still waiting for its response on a session that has been
\* disconnected ends with the not-connected error, and with nothing else.
C13_PendingCancelled ==
    [][ \A c \in Callers :
            (pc[c] = "polling" /\ rid[c] \in waiting /\ ~connected /\ pc'[c] = "done")
            => outcome'[c] = "NotConnectedError"
      ]_vars

\* C14: when a request times out, its own id is the only one to leave the
\* waiting set; the buffered responses and the position, id, polls, outcome
\* and result of every other caller are what they were.
C14_IndependentDeadline ==
    [][ \A c \in Callers :
            (pc[c] = "polling" /\ pc'[c] = "done" /\ outcome'[c] = "TimeoutError")
            => /\ rid[c] \in waiting
               /\ waiting' = waiting \ {rid[c]}
               /\ responses' = responses
               /\ \A o \in Callers \ {c} :
                    /\ pc'[o] = pc[o] /\ rid'[o] = rid[o] /\ polls'[o] = polls[o]
                    /\ outcome'[o] = outcome[o] /\ result'[o] = result[o]
      ]_vars

\* one request has timed out while another, which has slept already, is still waiting
C14_Witness ==
    \E c1, c2 \in Callers :
        /\ c1 # c2
        /\ pc[c1] = "done" /\ outcome[c1] = "TimeoutError"
        /\ pc[c2] = "polling" /\ polls[c2] >= 1 /\ rid[c2] \in waiting

\* C15: a push whose event name has no handler is logged and ignored: the
\* listener task stays alive on the open channel, so that later messages are
\* classified, and waiting set, buffer and board are unchanged.
C15_UnknownEventIgnored ==
    [][ \A d \in Pushes :
            (d.json /\ d.code = NoCode /\ d.event \notin KnownEvents \cup {NoEvent}
             /\ Receive(d))
            => /\ log'.kind = "ignored"
               /\ gen \in listeners' /\ connOpen'
               /\ UNCHANGED <<waiting, responses, board>>
      ]_vars

\* C16: a message that is not valid JSON, or whose request id is not a valid
\* UUID, is logged and dropped: waiting set, buffer, callers and board are
\* unchanged and the listener task stays alive on the open channel.
C16_DecodeErrorsDropped ==
    [][ \A d \in Undecodable :
            Receive(d)
            => /\ log'.kind \in {"unparseable", "baduuid"}
               /\ gen \in listeners' /\ connOpen'
               /\ UNCHANGED <<waiting, responses, callVars, board>>
      ]_vars

\* C17: the handling of a push event with a registered handler, the decoding
\* of its payload and the requests that decoding makes included, runs to its
\* end: the event is handled and the listener task is alive afterwards to
\* receive the next message.
C17_EventHandlingCompletes ==
    [][ \A d \in Pushes :
            (d.json /\ d.code = NoCode /\ d.event \in KnownEvents /\ Receive(d))
            => /\ log'.kind = "handled"
               /\ gen \in listeners' /\ connOpen'
      ]_vars

\* the rescues whose board_index is occupied on the board
Occupying == {r \in Rescues : r.board_index \in DOMAIN board}

\* C18: on every board the calls reach, append(rescue) without overwrite for
\* a rescue whose board_index is occupied raises IndexNotFreeError and leaves
\* the board as it is.
C18_IndexInUse ==
    \A r \in Occupying :
        LET a == append(board, r, FALSE) IN
        a.err = "IndexNotFreeError" /\ a.board = board

\* an append was refused on a board that holds a rescue
C18_Witness ==
    /\ bres.op = "append" /\ bres.err = "IndexNotFreeError"
    /\ DOMAIN board # {}

\* C19: on every board the calls reach, append(rescue, overwrite=True) for a
\* rescue whose board_index is occupied raises nothing and puts the rescue at
\* that index in place of the one stored there; every other index holds what
\* it held.
C19_Overwrite ==
    \A r \in Occupying :
        LET a == append(board, r, TRUE) IN
        /\ a.err = "none"
        /\ DOMAIN a.board = DOMAIN board
        /\ a.board[r.board_index] = r
        /\ \A i \in DOMAIN board \ {r.board_index} : a.board[i] = board[i]

\* an append has put a rescue where another one was stored, next to an
\* entry at another index
C19_Witness ==
    /\ bres.op = "append" /\ bres.err = "none" /\ bres.replaced
    /\ Cardinality(DOMAIN board) >= 2

\* C20: on every board the calls reach, an append that raises nothing has
\* stored the rescue: the board contains it and, if it has a board_index,
\* find_by_index of that index returns it.
C20_AppendStores ==
    \A r \in Rescues, o \in BOOLEAN :
        LET a == append(board, r, o) IN
        a.err = "none"
        => /\ __contains__(a.board, r)
           /\ r.board_index # NoIndex => find_by_index(a.board, r.board_index) = r

\* C21: on every board the calls reach, remove(rescue) for a rescue whose
\* board_index is stored deletes that index and leaves every other entry as
\* it is, raising nothing; for a rescue whose board_index is not stored it
\* raises KeyError and leaves the board as it is.
C21_Remove ==
    \A r \in Rescues :
        LET a == remove(board, r) IN
        IF r.board_index \in DOMAIN board
        THEN /\ a.err = "none"
             /\ DOMAIN a.board = DOMAIN board \ {r.board_index}
             /\ \A i \in DOMAIN a.board : a.board[i] = board[i]
        ELSE a.err = "KeyError" /\ a.board = board

\* a remove has deleted one entry and another one is still stored
C21_Witness ==
    /\ bres.op = "remove" /\ bres.err = "none"
    /\ DOMAIN board # {}

\* C22: on every board the calls reach, modify(rescue) for a rescue whose
\* board_index is stored puts the rescue at that index (find_by_index returns
\* it) and leaves every other entry as it is; for a rescue whose board_index
\* is not stored it fails, by an error or by returning False.
C22_Modify ==
    \A r \in Rescues :
        LET a == modify(board, r) IN
        IF r.board_index \in DOMAIN board
        THEN /\ a.err = "none"
             /\ find_by_index(a.board, r.board_index) = r
             /\ DOMAIN a.board = DOMAIN board
             /\ \A i \in DOMAIN board \ {r.board_index} : a.board[i] = board[i]
        ELSE a.err # "none" \/ ~a.ret

\* C23: on every board the calls reach and for every rescue `other`,
\* contains(other) is true exactly when some stored rescue is the same case:
\* both have the same identifier, or one of them has no identifier yet and
\* client and created_at are both equal.
C23_Contains ==
    \A other \in Rescues :
        __contains__(board, other)
        <=> \E i \in DOMAIN board :
               \/ board[i].case_id # NoCase /\ board[i].case_id = other.case_id
               \/ /\ board[i].case_id = NoCase \/ other.case_id = NoCase
                  /\ board[i].client = other.client
                  /\ board[i].created_at = other.created_at

\* every entry of the board before the step is still stored, unchanged
Kept == \A i \in DOMAIN board : i \in DOMAIN board' /\ board'[i] = board[i]

\* C24: when the dispatch loop receives a rescueCreated push, a rescue that
\* is open and not on the board is on the board afterwards, beside the
\* entries that were there; in every other case the board is unchanged.
C24_Created ==
    [][ \A d \in EventsOf("rescueCreated") :
            Receive(d)
            => IF d.open /\ ~__contains__(board, d.rescue)
               THEN __contains__(board', d.rescue) /\ Kept
               ELSE board' = board ]_vars

\* C25: when the dispatch loop receives a rescueUpdated push, a rescue
\* whose new state is open is appended when it is not on the board and
\* otherwise replaces the stored entry; a rescue whose new state is not open
\* is removed when it is on the board, so the board is without it afterwards.
C25_Updated ==
    [][ \A d \in EventsOf("rescueUpdated") :
            Receive(d)
            => IF d.open
               THEN IF __contains__(board, d.rescue)
                    THEN \E i \in DOMAIN board' : board'[i] = d.rescue
                    ELSE __contains__(board', d.rescue) /\ Kept
               ELSE IF __contains__(board, d.rescue)
                    THEN ~__contains__(board', d.rescue)
                    ELSE board' = board ]_vars

\* C26: when the dispatch loop receives a rescueDeleted push, a rescue that
\* is on the board is not on it afterwards; for a rescue that is not on the
\* board no error is raised, the board is unchanged and the loop keeps
\* running.
C26_Deleted ==
    [][ \A d \in EventsOf("rescueDeleted") :
            Receive(d)
            => IF __contains__(board, d.rescue)
               THEN ~__contains__(board', d.rescue)
               ELSE /\ board' = board
                    /\ log'.kind \notin {"TypeError", "KeyError"}
                    /\ gen \in listeners' ]_vars

Wrapped(m) ==
    IF "value" \in DOMAIN m THEN {m.value}
    ELSE {m.values[j] : j \in 1..Len(m.values)}

\* what a wrapped value is to be written as under sanitizer f
Encoded(f, v) ==
    IF v = None \/ f = NoSanitize THEN v
    ELSE [type |-> "str", name |-> Lower(v.name)]

\* {operator: value} for marker m under sanitizer f
OperatorDict(m, f) ==
    IF "value" \in DOMAIN m
    THEN (m.op :> Encoded(f, m.value))
    ELSE (m.op :> [type |-> "list",
                   items |-> [j \in 1..Len(m.values) |-> Encoded(f, m.values[j])]])

\* C28: after every call of Search.generate that returns, each criterion
\* whose value is an operator marker has {operator: value} at its wire path,
\* the operator being $not, $contains, $in or $notIn, every wrapped value
\* that is not None sanitized and None left as it is; and a call returns
\* when all its criteria are registered and carry markers whose wrapped
\* values the sanitizer accepts.
C28_OperatorEncoding ==
    search.op = "generate"
    => LET reg == search.criteria
           c == search.arg
           marked == {i \in 1..Len(c) : IsOperator(c[i][2])}
           fits(i) ==
              /\ c[i][1] \in DOMAIN reg
              /\ \/ reg[c[i][1]].sanitize = NoSanitize
                 \/ \A v \in Wrapped(c[i][2]) : v = None \/ v.type = "Status"
       IN  /\ search.err = NoErr
              => \A i \in marked :
                    /\ c[i][2].op \in {"$not", "$contains", "$in", "$notIn"}
                    /\ get_nested(search.out, reg[c[i][1]].json_key)
                          = OperatorDict(c[i][2], reg[c[i][1]].sanitize)
           /\ (marked = 1..Len(c) /\ \A i \in marked : fits(i))
              => search.err = NoErr

\* C29: after every call of Search.generate, a first criterion that is
\* registered with types and has a plain value of none of them has raised a
\* TypeError naming the expected types and the actual one (None counting as
\* accepted only for a nullable criterion); and when the call returns, every
\* criterion with a plain value is registered and has its value at its wire
\* path, sanitized unless it is None.
C29_TypeChecked ==
    search.op = "generate"
    => LET reg == search.criteria
           c == search.arg
           plain == {i \in 1..Len(c) : ~IsOperator(c[i][2])}
       IN  /\ (/\ 1 \in plain
               /\ c[1][1] \in DOMAIN reg
               /\ reg[c[1][1]].typed
               /\ c[1][2].type \notin reg[c[1][1]].types)
              => search.err = [class |-> "TypeError",
                               expected |-> reg[c[1][1]].types,
                               actual |-> c[1][2].type]
           /\ search.err = NoErr
              => \A i \in plain :
                    /\ c[i][1] \in DOMAIN reg
                    /\ get_nested(search.out, reg[c[i][1]].json_key)
                          = Encoded(reg[c[i][1]].sanitize, c[i][2])

\* C30: decoding what a converter encoded (Converter.to_obj of
\* Converter.to_json(E)) raises nothing and gives back the value E had for
\* the attribute of every field that is not write-only (JSON_ONLY), whatever
\* the depth of the field's json_path and whether or not it has a to_json.
C30_RoundTrip ==
    /\ conv.op = "to_json" => conv.err = "none"
    /\ conv.op = "to_obj" =>
        /\ conv.err = "none"
        /\ \A i \in 1..Len(conv.converter) :
              conv.converter[i].retention # "JSON_ONLY" =>
                conv.obj[conv.converter[i].attr_name]
                    = conv.entity[conv.converter[i].attr_name]

\* C31: registering a function under aliases of which one, casefolded, is
\* already registered raises NameCollisionException, and whatever is
\* registered, every alias bound before the call is bound to the same
\* function after it.
C31_NoOverwrite ==
    \A func \in Funcs, aliases \in Aliases :
        LET r == command(commands, func, aliases) IN
        /\ (\E i \in 1..Len(aliases) : casefold(aliases[i]) \in DOMAIN commands)
              => r.err = "NameCollisionException"
        /\ \A a \in DOMAIN commands :
              a \in DOMAIN r.commands /\ r.commands[a] = commands[a]

C31_Witness ==
    /\ cres.err = "NameCollisionException"
    /\ cres.aliases = <<"FUEL">>
    /\ "fuel" \in DOMAIN commands
    /\ commands["fuel"] # cres.func

\* C32: a call of a command wrapped by parametrize, with any number of
\* supplied arguments: when a mandatory parameter is left without an argument
\* or arguments remain after the last parameter, the usage message is sent
\* and the function is not called; otherwise the function is called, with
\* None for every optional parameter that got no argument.
Supplied == Len(pres.words) - 1

Mandatory == Cardinality({i \in 1..Len(pres.params) : ~pres.params[i].optional})

EndsWithText ==
    Len(pres.params) > 0 /\ pres.params[Len(pres.params)].kind = "text"

Fits ==
    /\ Supplied >= Mandatory
    /\ Supplied <= Len(pres.params) \/ EndsWithText

C32_Parametrize ==
    pres.op = "call" =>
        IF Fits
        THEN /\ pres.called
             /\ Len(pres.args) = Len(pres.params)
             /\ \A i \in (Supplied + 1)..Len(pres.params) : pres.args[i] = None
        ELSE pres.usage /\ ~pres.called

\* C33: connect() on a first message that cannot be parsed raises APIError,
\* closes the channel, leaves the session not connected and starts no
\* dispatch loop.
C33_MalformedHandshake ==
    [][ Handshake(Garbage)
            => /\ ctl'.op = "connect" /\ ctl'.err = "APIError"
               /\ ~connOpen'
               /\ ~connected'
               /\ gen \notin listeners'
      ]_vars

\* C34: when a connect() on a session that had a channel before succeeds,
\* _waiting_requests and _request_responses are both empty.
C34_RebuiltOnReconnect ==
    [][ \A hs \in Versions :
            (Handshake(hs) /\ gen > 1 /\ ctl'.err = "none")
            => (waiting' = {} /\ DOMAIN responses' = {})
      ]_vars

\* C40: a _request made while the session is not connected ends with
\* NotConnectedError and leaves _waiting_requests as it was before the call.
C40_NotConnectedLeavesNothing ==
    [][ \A c \in Callers :
            (Request(c) /\ ~connected)
            => (outcome'[c] = "NotConnectedError" /\ waiting' = waiting)
      ]_vars

\* the same-case rule of RatBoard.__contains__, for one stored entry
SameCase(e, other) ==
    \/ e.case_id = other.case_id
    \/ e.client = other.client /\ e.created_at = other.created_at

C38_OneToOne ==
    /\ \A i \in DOMAIN board : board[i].board_index = i
    /\ \A i, j \in DOMAIN board :
          (i # j /\ board[i].case_id # NoCase) => board[i].case_id # board[j].case_id

\* what the handler of a push does to the board when it runs
Applied(d) ==
    IF d.event = "rescueCreated" THEN _rescue_created(board, d.rescue, d.open)
    ELSE IF d.event = "rescueUpdated" THEN _rescue_updated(board, d.rescue, d.open)
    ELSE _rescue_deleted(board, d.rescue)

\* C39: when the dispatch loop receives a push whose application to the
\* board raises an error of append or remove, the loop is still running
\* afterwards.
C39_LoopSurvivesBoardError ==
    [][ \A d \in EventDocs :
            (Receive(d) /\ Applied(d).err # "none") => gen \in listeners'
      ]_vars

\* C36: a command wrapped by require_api_version(version, exact) is executed
\* exactly when the handler's version is the required one (exact) or is the
\* required one or a later one (not exact); when it is not executed a
\* warning is logged.
C36_RequiredVersion ==
    vres.op = "call" =>
        /\ vres.executed <=>
              IF vres.exact THEN vres.actual_version = vres.version
              ELSE StrRank(vres.actual_version) >= StrRank(vres.version)
        /\ ~vres.executed => vres.warned

\* C35: when a response has been decoded into a rescue, the requests made
\* for its rats are one for each rat that was neither cached before the
\* response arrived nor included in it: none when every rat was included.
C35_IncludedCached ==
    inc.op = "decoded" =>
        inc.requests = Cardinality(inc.rats \ (inc.before \cup inc.included))

============================================================================
